---- MODULE Spec2Model ----
(***************************************************************************)
(* Model of src/modules/rlm_dotnet/rlm_dotnet.c: the FreeRADIUS module     *)
(* that loads the CoreCLR hosting library, initializes a runtime context,  *)
(* binds one delegate per configured section and exposes the section       *)
(* handlers to the server.                                                 *)
(*                                                                         *)
(* One rlm_dotnet_t instance is modelled.  The server zero-fills the       *)
(* instance, parses module_config into it, then calls mod_instantiate, the *)
(* section handlers mod_<x> and mod_detach.  The module is                 *)
(* RLM_TYPE_THREAD_UNSAFE, so the calls on one instance are serialized and *)
(* each handler is one atomic action.                                      *)
(*                                                                         *)
(* The foreign calls (dlopen, dlsym and the three hosting entry points)    *)
(* are the environment: their results are drawn from small sets.  Every    *)
(* foreign call is appended to                                             *)
(* the ghost log "calls".  A call through a null function pointer (a       *)
(* symbol dlsym did not resolve) is undefined behaviour; the pointer is    *)
(* only known at run time, so what the build produces is a jump to address *)
(* 0, which faults and ends the process: the handler stops at that call    *)
(* and pc becomes "crashed".                                               *)
(***************************************************************************)
EXTENDS Integers, Sequences, FiniteSets

VARIABLES inst, pc, calls, returns, last

vars == <<inst, pc, calls, returns, last>>

----------------------------------------------------------------------------
(* Bounds *)

\* at most this many sections have func_<x> set in the configuration
MaxConfigured == 2

----------------------------------------------------------------------------
(* Values *)

NULL == 0
\* a char const * that is NULL (func_<x> has no default)
NullString == "<NULL>"

RLM_MODULE_FAIL == 1
RLM_MODULE_OK == 2
RLM_MODULE_NOOP == 7
RLM_MODULE_UPDATED == 8

DEFAULT_CLR_LIBRARY == "libcoreclr.dylib"

\* the non-null values the environment hands out
LibHandle == 1
SymbolAddr == 1
HostHandle == 1
DomainId == 1
DelegateAddr == 1

\* a nonzero status: the code only tests a status against zero
Failure == 1

\* the status codes the foreign entry points return (0 = success)
Statuses == {0, Failure}

\* the requests the server hands to a section handler; no handler reads them
Requests == {"Access-Request", "Accounting-Request"}

\* the dotnet_func_def_t members of rlm_dotnet_t, in declaration order
\* (WITH_COA is not defined)
Sections ==
  <<"instantiate", "authorize", "authenticate", "preacct", "accounting",
    "checksimul", "pre_proxy", "post_proxy", "post_auth", "detach">>

SectionSet == {Sections[i] : i \in 1..Len(Sections)}

\* the order in which mod_instantiate binds the sections
BindOrder ==
  <<"instantiate", "authorize", "authenticate", "preacct", "accounting",
    "checksimul", "pre_proxy", "post_proxy", "post_auth", "detach">>

\* the sections that have a MOD_FUNC handler
ModFuncs ==
  {"authenticate", "authorize", "preacct", "accounting", "checksimul",
   "pre_proxy", "post_proxy", "post_auth"}

HostingSymbols ==
  {"coreclr_initialize", "coreclr_create_delegate", "coreclr_shutdown_2"}

----------------------------------------------------------------------------
(* Data *)

\* a dotnet_func_def_t as module_config leaves it in a zero-filled instance
dotnet_func_def_t(fname) ==
  [function |-> NULL,
   assembly_name |-> "${.assembly}",
   class_name |-> "${.class}",
   function_name |-> fname]

\* a zero-filled rlm_dotnet_t after module_config has been parsed into it
rlm_dotnet_t(fnames) ==
  [dylib |-> NULL,
   hostHandle |-> NULL,
   domainId |-> 0,
   coreclr_initialize |-> NULL,
   coreclr_create_delegate |-> NULL,
   coreclr_shutdown_2 |-> NULL,
   clr_library |-> DEFAULT_CLR_LIBRARY,
   slot |-> [s \in SectionSet |-> dotnet_func_def_t(fnames[s])]]

\* the configurations: func_<x> is absent or names a function
module_config ==
  {f \in [SectionSet -> {NullString, "Foo"}] :
     Cardinality({s \in SectionSet : f[s] # NullString}) <= MaxConfigured}

\* one record of the ghost log of foreign calls: the entry point, whether
\* the pointer called was null, the section (create_delegate and delegate
\* calls), the context handle and domain id passed, the status returned
ForeignCall(fn, isNull, section, handle, domain, status) ==
  [fn |-> fn, null |-> isNull, section |-> section,
   hostHandle |-> handle, domainId |-> domain, status |-> status]

\* the running handler: the instance, the log, whether the process has
\* faulted, and the value of the last completed step
Exec(i, c, crashed, rc) == [inst |-> i, calls |-> c, crashed |-> crashed, rc |-> rc]

Configured(i) == {s \in SectionSet : i.slot[s].function_name # NullString}

----------------------------------------------------------------------------
(* bind_dotnet *)

\* the A(x) of bind_dotnet for the three symbols: inst->x = dlsym(dylib, #x)
ResolveSymbols(i, sym) ==
  [i EXCEPT !.coreclr_initialize = sym["coreclr_initialize"],
            !.coreclr_create_delegate = sym["coreclr_create_delegate"],
            !.coreclr_shutdown_2 = sym["coreclr_shutdown_2"]]

DlsymCalls(i, sym) ==
  <<ForeignCall("dlsym", FALSE, "coreclr_initialize", i.dylib, 0,
                sym["coreclr_initialize"]),
    ForeignCall("dlsym", FALSE, "coreclr_create_delegate", i.dylib, 0,
                sym["coreclr_create_delegate"]),
    ForeignCall("dlsym", FALSE, "coreclr_shutdown_2", i.dylib, 0,
                sym["coreclr_shutdown_2"])>>

\* a bind_dotnet whose dlopen failure path returns 0
bind_dotnet_returns0(m, dl, sym) ==
  LET i1 == [m.inst EXCEPT !.dylib = dl]
      c1 == Append(m.calls, ForeignCall("dlopen", FALSE, "", NULL, 0, dl))
  IN IF dl = NULL
       THEN Exec(i1, c1, FALSE, 0)
       ELSE Exec(ResolveSymbols(i1, sym), c1 \o DlsymCalls(i1, sym), FALSE, 0)

\* a bind_dotnet that gives up at the first symbol dlsym does not find
bind_dotnet_stopsAtMissing(m, dl, sym) ==
  LET i1 == [m.inst EXCEPT !.dylib = dl]
      c1 == Append(m.calls, ForeignCall("dlopen", FALSE, "", NULL, 0, dl))
      d == DlsymCalls(i1, sym)
      i2 == [i1 EXCEPT !.coreclr_initialize = sym["coreclr_initialize"]]
      i3 == [i2 EXCEPT !.coreclr_create_delegate = sym["coreclr_create_delegate"]]
  IN IF dl = NULL THEN Exec(i1, c1, FALSE, 1)
     ELSE IF sym["coreclr_initialize"] = NULL
       THEN Exec(i2, c1 \o SubSeq(d, 1, 1), FALSE, 1)
     ELSE IF sym["coreclr_create_delegate"] = NULL
       THEN Exec(i3, c1 \o SubSeq(d, 1, 2), FALSE, 1)
     ELSE Exec(ResolveSymbols(i1, sym), c1 \o d, FALSE,
               IF sym["coreclr_shutdown_2"] = NULL THEN 1 ELSE 0)

\* dl is what dlopen returns, sym what dlsym returns for each symbol
bind_dotnet(m, dl, sym) ==
  LET i1 == [m.inst EXCEPT !.dylib = dl]
      c1 == Append(m.calls, ForeignCall("dlopen", FALSE, "", NULL, 0, dl))
  IN IF dl = NULL
       THEN Exec(i1, c1, FALSE, 1)
       ELSE Exec(ResolveSymbols(i1, sym), c1 \o DlsymCalls(i1, sym), FALSE, 0)

----------------------------------------------------------------------------
(* bind_one_method *)

\* the status coreclr_create_delegate returns for a section's triple; cd
\* gives it for the sections the environment is asked about
CreateDelegateStatus(cd, section) ==
  IF section \in DOMAIN cd THEN cd[section] ELSE 0

\* inst->coreclr_create_delegate(hostHandle, domainId, ..., &def->function):
\* a null pointer faults; else the callee stores the delegate on success
\* and leaves the slot alone on failure
coreclr_create_delegate(m, section, status) ==
  IF m.inst.coreclr_create_delegate = NULL
    THEN Exec(m.inst,
              Append(m.calls,
                     ForeignCall("coreclr_create_delegate", TRUE, section,
                                 m.inst.hostHandle, m.inst.domainId, 0)),
              TRUE, m.rc)
    ELSE Exec(IF status = 0
                THEN [m.inst EXCEPT !.slot[section].function = DelegateAddr]
                ELSE m.inst,
              Append(m.calls,
                     ForeignCall("coreclr_create_delegate", FALSE, section,
                                 m.inst.hostHandle, m.inst.domainId, status)),
              FALSE, status)

\* a bind_one_method that tests assembly_name, which always has a default
bind_one_method_testsAssembly(m, section, cd) ==
  IF m.crashed THEN m
  ELSE IF m.inst.slot[section].assembly_name # NullString
    THEN coreclr_create_delegate(m, section, CreateDelegateStatus(cd, section))
    ELSE [m EXCEPT !.rc = 0]

bind_one_method(m, section, cd) ==
  IF m.crashed THEN m
  ELSE IF m.inst.slot[section].function_name # NullString
    THEN coreclr_create_delegate(m, section, CreateDelegateStatus(cd, section))
    ELSE [m EXCEPT !.rc = 0]

RECURSIVE BindEach(_, _, _)
BindEach(m, order, cd) ==
  IF order = <<>> THEN m
  ELSE BindEach(bind_one_method(m, Head(order), cd), Tail(order), cd)

RECURSIVE BindUntilFailure(_, _, _)
BindUntilFailure(m, order, cd) ==
  IF order = <<>> THEN m
  ELSE LET m1 == bind_one_method(m, Head(order), cd)
       IN IF m1.rc # 0 THEN m1 ELSE BindUntilFailure(m1, Tail(order), cd)

\* a binding loop that gives up at the first section that fails to bind
BindAll_stopsAtFailure(m, order, cd) == BindUntilFailure(m, order, cd)

\* the A(x) bind_one_method(inst, &inst->x, #x) lines, for the sections in
\* the given order
BindAll(m, order, cd) == BindEach(m, order, cd)

----------------------------------------------------------------------------
(* mod_instantiate *)

\* what coreclr_initialize can do: succeed and store the context handle and
\* domain id, or return a nonzero status, having stored either or neither
InitializeOutcomes(i) ==
  {[status |-> 0, hostHandle |-> HostHandle, domainId |-> DomainId]}
  \cup [status : Statuses \ {0},
        hostHandle : {i.hostHandle, HostHandle},
        domainId : {i.domainId, DomainId}]

\* inst->coreclr_initialize(..., &inst->hostHandle, &inst->domainId)
coreclr_initialize(m, init) ==
  IF m.inst.coreclr_initialize = NULL
    THEN Exec(m.inst,
              Append(m.calls,
                     ForeignCall("coreclr_initialize", TRUE, "", NULL, 0, 0)),
              TRUE, m.rc)
    ELSE Exec([m.inst EXCEPT !.hostHandle = init.hostHandle,
                             !.domainId = init.domainId],
              Append(m.calls,
                     ForeignCall("coreclr_initialize", FALSE, "",
                                 init.hostHandle, init.domainId, init.status)),
              FALSE, init.status)

\* a mod_instantiate that binds whatever hr is
mod_instantiate_ignoresHr(m, dl, sym, init, cd) ==
  LET b == bind_dotnet(m, dl, sym)
  IN IF b.rc # 0
       THEN [b EXCEPT !.rc = RLM_MODULE_FAIL]
       ELSE LET h == coreclr_initialize(b, init)
            IN IF h.crashed THEN h
               ELSE [BindAll(h, BindOrder, cd) EXCEPT !.rc = 0]

\* a mod_instantiate that returns what the last bind_one_method returned
mod_instantiate_returnsBindRc(m, dl, sym, init, cd) ==
  LET b == bind_dotnet(m, dl, sym)
  IN IF b.rc # 0
       THEN [b EXCEPT !.rc = RLM_MODULE_FAIL]
       ELSE LET h == coreclr_initialize(b, init)
            IN IF h.crashed THEN h
               ELSE IF h.rc = 0
                 THEN BindAll(h, BindOrder, cd)
                 ELSE [h EXCEPT !.rc = 0]

\* the handler, run on m with the environment's answers: dl from dlopen,
\* sym from dlsym, init from coreclr_initialize, cd from
\* coreclr_create_delegate.  rc is the value returned, unless crashed
mod_instantiate(m, dl, sym, init, cd) ==
  LET b == bind_dotnet(m, dl, sym)
  IN IF b.rc # 0
       THEN [b EXCEPT !.rc = RLM_MODULE_FAIL]
       ELSE LET h == coreclr_initialize(b, init)
            IN IF h.crashed THEN h
               ELSE IF h.rc = 0
                 THEN [BindAll(h, BindOrder, cd) EXCEPT !.rc = 0]
                 ELSE [h EXCEPT !.rc = 0]

----------------------------------------------------------------------------
(* mod_detach *)

\* the coreclr_shutdown_2 call of mod_detach, passing the given handle and
\* domain id, and returning rc when the call returns
ShutdownCall(m, handle, domain, status, rc) ==
  IF m.crashed THEN m
  ELSE IF m.inst.coreclr_shutdown_2 = NULL
    THEN Exec(m.inst,
              Append(m.calls,
                     ForeignCall("coreclr_shutdown_2", TRUE, "", handle, domain, 0)),
              TRUE, m.rc)
    ELSE Exec(m.inst,
              Append(m.calls,
                     ForeignCall("coreclr_shutdown_2", FALSE, "", handle, domain, status)),
              FALSE, rc)

\* a mod_detach that returns hr
mod_detach_returnsHr(m, status) ==
  ShutdownCall(m, m.inst.hostHandle, m.inst.domainId, status, status)

\* a mod_detach that shuts the context down twice
mod_detach_shutsDownTwice(m, status) ==
  ShutdownCall(ShutdownCall(m, m.inst.hostHandle, m.inst.domainId, status, 0),
               m.inst.hostHandle, m.inst.domainId, status, 0)

\* a mod_detach that skips the shutdown when there is no context handle
mod_detach_skipsWithoutContext(m, status) ==
  IF m.inst.hostHandle = NULL
    THEN [m EXCEPT !.rc = 0]
    ELSE ShutdownCall(m, m.inst.hostHandle, m.inst.domainId, status, 0)

\* a mod_detach that clears the bound delegates
mod_detach_clearsSlots(m, status) ==
  LET r == ShutdownCall(m, m.inst.hostHandle, m.inst.domainId, status, 0)
  IN [r EXCEPT !.inst.slot =
        [s \in SectionSet |-> [r.inst.slot[s] EXCEPT !.function = NULL]]]

\* a mod_detach that unloads the library and clears its handle
mod_detach_dlcloses(m, status) ==
  LET r == ShutdownCall(m, m.inst.hostHandle, m.inst.domainId, status, 0)
  IN IF r.crashed THEN r ELSE [r EXCEPT !.inst.dylib = NULL]

\* a mod_detach that passes a null context handle
mod_detach_passesNullHandle(m, status) ==
  ShutdownCall(m, NULL, m.inst.domainId, status, 0)

\* status is what coreclr_shutdown_2 returns
mod_detach(m, status) ==
  IF m.inst.coreclr_shutdown_2 = NULL
    THEN Exec(m.inst,
              Append(m.calls,
                     ForeignCall("coreclr_shutdown_2", TRUE, "",
                                 m.inst.hostHandle, m.inst.domainId, 0)),
              TRUE, m.rc)
    ELSE Exec(m.inst,
              Append(m.calls,
                     ForeignCall("coreclr_shutdown_2", FALSE, "",
                                 m.inst.hostHandle, m.inst.domainId, status)),
              FALSE, 0)

----------------------------------------------------------------------------
(* do_dotnet and the MOD_FUNC handlers *)

\* a do_dotnet that calls pFunc and reports ok
do_dotnet_callsPFunc(i, request, pFunc, funcname) ==
  [rcode |-> RLM_MODULE_OK,
   calls |-> <<ForeignCall("delegate", pFunc = NULL, funcname,
                           i.hostHandle, i.domainId, 0)>>]

\* the result code and the foreign calls made
do_dotnet(i, request, pFunc, funcname) ==
  [rcode |-> RLM_MODULE_NOOP, calls |-> <<>>]

\* mod_<x>(instance, request)
MOD_FUNC(x, i, request) == do_dotnet(i, request, i.slot[x].function, x)

----------------------------------------------------------------------------
(* The server's calls on the instance *)

NoDispatch == [fn |-> "", request |-> "", rcode |-> 0, invoked |-> 0, pFunc |-> NULL]

Returned(fn) == {returns[k].value : k \in {j \in DOMAIN returns : returns[j].fn = fn}}

Init ==
  /\ inst \in {rlm_dotnet_t(f) : f \in module_config}
  /\ pc = "configured"
  /\ calls = <<>>
  /\ returns = <<>>
  /\ last = NoDispatch

\* the server instantiates the module once
Instantiate ==
  /\ pc = "configured"
  /\ \E dl \in {NULL, LibHandle} :
     \E sym \in [HostingSymbols -> {NULL, SymbolAddr}] :
     \E init \in InitializeOutcomes(inst) :
     \E cd \in [Configured(inst) -> Statuses] :
       LET r == mod_instantiate(Exec(inst, calls, FALSE, 0), dl, sym, init, cd)
       IN /\ inst' = r.inst
          /\ calls' = r.calls
          /\ pc' = IF r.crashed THEN "crashed" ELSE "instantiated"
          /\ returns' = IF r.crashed THEN returns
                        ELSE Append(returns, [fn |-> "mod_instantiate", value |-> r.rc])
  /\ UNCHANGED last

\* the server runs a section of a module whose instantiation returned 0
Dispatch ==
  /\ pc = "instantiated"
  /\ Returned("mod_instantiate") = {0}
  /\ \E x \in ModFuncs :
     \E request \in Requests :
       LET r == MOD_FUNC(x, inst, request)
           faulted == \E k \in DOMAIN r.calls : r.calls[k].null
       IN /\ calls' = calls \o r.calls
          /\ pc' = IF faulted THEN "crashed" ELSE pc
          /\ last' = IF faulted THEN last
                     ELSE [fn |-> x, request |-> request, rcode |-> r.rcode,
                           invoked |-> Len(r.calls), pFunc |-> inst.slot[x].function]
  /\ UNCHANGED <<inst, returns>>

\* the server frees the instance: detach is its destructor, set when the
\* configuration was parsed, so it runs whether or not instantiate ran
Detach ==
  /\ pc \in {"configured", "instantiated"}
  /\ \E status \in Statuses :
       LET r == mod_detach(Exec(inst, calls, FALSE, 0), status)
       IN /\ inst' = r.inst
          /\ calls' = r.calls
          /\ pc' = IF r.crashed THEN "crashed" ELSE "detached"
          /\ returns' = IF r.crashed THEN returns
                        ELSE Append(returns, [fn |-> "mod_detach", value |-> r.rc])
  /\ UNCHANGED last

Next == Instantiate \/ Dispatch \/ Detach

Spec == Init /\ [][Next]_vars

----------------------------------------------------------------------------
(* Reading the log *)

CallsOf(fn) == {k \in DOMAIN calls : calls[k].fn = fn}

\* dlopen was called and returned no handle
LoadFailed == \E k \in CallsOf("dlopen") : calls[k].status = NULL

\* the initialize entry point was called and returned status zero
InitializeOk ==
  \E k \in CallsOf("coreclr_initialize") : ~calls[k].null /\ calls[k].status = 0

\* the initialize entry point was called and returned a nonzero status
InitializeFailed ==
  \E k \in CallsOf("coreclr_initialize") : ~calls[k].null /\ calls[k].status # 0

\* the create-delegate calls made for a section
BindCalls(s) == {k \in CallsOf("coreclr_create_delegate") : calls[k].section = s}

\* the sections whose create-delegate call returned nonzero
BindFailed == {s \in SectionSet : \E k \in BindCalls(s) : ~calls[k].null /\ calls[k].status # 0}

\* a section is Bound when its function identifier is configured and its
\* create-delegate call returned success, and Unbound otherwise
Bound(s) ==
  /\ inst.slot[s].function_name # NullString
  /\ \E k \in BindCalls(s) : ~calls[k].null /\ calls[k].status = 0

\* mod_instantiate has returned
InstantiateReturned == Returned("mod_instantiate") # {}

\* the position of a section in the binding order
RECURSIVE IndexOf(_, _)
IndexOf(s, order) == IF Head(order) = s THEN 1 ELSE 1 + IndexOf(s, Tail(order))

----------------------------------------------------------------------------
(* Claims *)

\* C1: when the initialize entry point returns a nonzero status,
\* mod_instantiate does not return the success value 0
C1_InitFailureFailsInstantiate ==
  (InitializeFailed /\ InstantiateReturned) => 0 \notin Returned("mod_instantiate")

\* C2: mod_instantiate never calls an unresolved (null) hosting entry point;
\* when the library loaded but coreclr_initialize was not resolved, it
\* returns a failure value instead
C2_UnresolvedSymbolFailsFast ==
  /\ \A k \in CallsOf("coreclr_initialize") \cup CallsOf("coreclr_create_delegate") :
       ~calls[k].null
  /\ (pc # "configured" /\ inst.dylib # NULL /\ inst.coreclr_initialize = NULL)
       => (InstantiateReturned /\ 0 \notin Returned("mod_instantiate"))

\* C3: mod_detach never calls a null shutdown entry point, also when no
\* instantiate succeeded before it; it runs to completion
C3_DetachWithoutInstantiateSafe ==
  ~InitializeOk =>
    /\ \A k \in CallsOf("coreclr_shutdown_2") : ~calls[k].null
    /\ (CallsOf("coreclr_shutdown_2") # {} => pc = "detached")

\* C4: when dlopen returns no handle, mod_instantiate returns
\* RLM_MODULE_FAIL and calls neither the initialize nor the create-delegate
\* entry point
C4_LoadFailureFailsInstantiate ==
  (pc # "configured" /\ LoadFailed) =>
    /\ Returned("mod_instantiate") = {RLM_MODULE_FAIL}
    /\ CallsOf("coreclr_initialize") = {}
    /\ CallsOf("coreclr_create_delegate") = {}

C4_Witness ==
  /\ LoadFailed
  /\ Returned("mod_instantiate") = {RLM_MODULE_FAIL}
  /\ Configured(inst) # {}

\* C5: every create-delegate call comes after an initialize call that
\* returned status zero, and when initialize returned nonzero there is no
\* create-delegate call
C5_DelegateOnlyAfterInitializeOk ==
  /\ \A k \in CallsOf("coreclr_create_delegate") :
       \E j \in CallsOf("coreclr_initialize") :
         j < k /\ ~calls[j].null /\ calls[j].status = 0
  /\ InitializeFailed => CallsOf("coreclr_create_delegate") = {}

C5_Witness ==
  \E k \in CallsOf("coreclr_create_delegate") : ~calls[k].null

\* C6: a dispatch of an Unbound section returns RLM_MODULE_NOOP and calls
\* no delegate, and no delegate call (null or not) is ever made for an
\* Unbound section
C6_UnboundDispatchIsNoop ==
  /\ (last.fn # "" /\ ~Bound(last.fn)) =>
       (last.rcode = RLM_MODULE_NOOP /\ last.invoked = 0)
  /\ \A k \in CallsOf("delegate") : Bound(calls[k].section)

C6_Witness ==
  /\ last.fn # ""
  /\ last.fn \in BindFailed
  /\ last.rcode = RLM_MODULE_NOOP

\* C7: a dispatch of a Bound section calls the bound delegate exactly once
\* and returns the ok or the updated code
C7_BoundDispatchInvokesOnce ==
  (last.fn # "" /\ Bound(last.fn)) =>
    (last.invoked = 1 /\ last.rcode \in {RLM_MODULE_OK, RLM_MODULE_UPDATED})

----------------------------------------------------------------------------
(* Binding orders *)

Swap(order, a, b) ==
  [k \in DOMAIN order |->
     IF k = a THEN order[b] ELSE IF k = b THEN order[a] ELSE order[k]]

Reverse(order) == [k \in DOMAIN order |-> order[Len(order) + 1 - k]]

Rotate(order, n) ==
  [k \in DOMAIN order |-> order[((k + n - 1) % Len(order)) + 1]]

\* permutations of the binding order: every exchange of two sections,
\* every rotation, and the reverse order
OtherOrders ==
  {Swap(BindOrder, a, b) : a \in DOMAIN BindOrder, b \in DOMAIN BindOrder}
  \cup {Rotate(BindOrder, n) : n \in DOMAIN BindOrder}
  \cup {Reverse(BindOrder)}

\* the status each attempted section's create-delegate call returned
StatusFromLog ==
  [s \in {x \in SectionSet : BindCalls(x) # {}} |->
     CHOOSE st \in Statuses : \E k \in BindCalls(s) : calls[k].status = st]

\* the instance as it was before the sections were bound
BeforeBinding ==
  [inst EXCEPT !.slot = [s \in SectionSet |-> [inst.slot[s] EXCEPT !.function = NULL]]]

\* mod_instantiate has just returned after a successful initialize
JustBound ==
  /\ pc = "instantiated"
  /\ last = NoDispatch
  /\ InitializeOk

\* C8: after a successful initialize a section's slot holds a delegate
\* exactly when the section is configured and its own create-delegate call
\* returned success: of N configured sections with M failing, N-M are bound;
\* and binding the sections in another order, with the same outcome per
\* section, ends with the same slots
C8_BindingIsPerSection ==
  (InitializeOk /\ InstantiateReturned) =>
    /\ \A s \in SectionSet :
         inst.slot[s].function # NULL <=> (s \in Configured(inst) /\ s \notin BindFailed)
    /\ \A s \in SectionSet : inst.slot[s].function # NULL <=> Bound(s)
    /\ Cardinality({s \in SectionSet : inst.slot[s].function # NULL})
         = Cardinality(Configured(inst)) - Cardinality(BindFailed)
    /\ JustBound =>
         \A order \in OtherOrders :
           LET r == BindAll(Exec(BeforeBinding, <<>>, FALSE, 0), order, StatusFromLog)
           IN ~r.crashed /\ r.inst = inst

C8_Witness ==
  /\ JustBound
  /\ Cardinality(Configured(inst)) = 2
  /\ Cardinality(BindFailed) = 1
  /\ Cardinality({s \in SectionSet : inst.slot[s].function # NULL}) = 1
  /\ IndexOf(CHOOSE s \in BindFailed : TRUE, BindOrder)
       < IndexOf(CHOOSE s \in SectionSet : inst.slot[s].function # NULL, BindOrder)

\* C9: after a successful initialize, mod_instantiate calls create-delegate
\* exactly once for every section that has a function identifier and never
\* for another, in the binding order, and a call that returned nonzero is
\* followed by the calls for all configured sections after it
C9_BindingIsBestEffort ==
  (InitializeOk /\ InstantiateReturned) =>
    /\ \A s \in SectionSet :
         Cardinality(BindCalls(s)) = IF s \in Configured(inst) THEN 1 ELSE 0
    /\ \A k \in CallsOf("coreclr_create_delegate") :
         calls[k].status # 0 =>
           \A s \in Configured(inst) :
             IndexOf(s, BindOrder) > IndexOf(calls[k].section, BindOrder)
               => \E j \in BindCalls(s) : j > k

C9_Witness ==
  /\ InitializeOk /\ InstantiateReturned
  /\ \E k \in CallsOf("coreclr_create_delegate") :
       /\ calls[k].status # 0
       /\ \E j \in CallsOf("coreclr_create_delegate") : j > k

\* C10: when the library loaded and initialize succeeded, mod_instantiate
\* returns 0 whichever sections failed to bind
C10_BindFailureNotFatal ==
  (InitializeOk /\ InstantiateReturned) => Returned("mod_instantiate") = {0}

C10_Witness ==
  /\ InitializeOk
  /\ Returned("mod_instantiate") = {0}
  /\ Cardinality(Configured(inst)) = 2
  /\ BindFailed = Configured(inst)

----------------------------------------------------------------------------
(* Detach and the instance's lifetime *)

ShutdownCalls == CallsOf("coreclr_shutdown_2")

\* mod_detach has returned
DetachReturned == Returned("mod_detach") # {}

\* C11: mod_detach returns 0 whether coreclr_shutdown_2 returns zero or a
\* nonzero status
C11_DetachAlwaysSucceeds ==
  /\ DetachReturned => Returned("mod_detach") = {0}
  /\ (\E k \in ShutdownCalls : ~calls[k].null) => Returned("mod_detach") = {0}

C11_Witness ==
  /\ \E k \in ShutdownCalls : ~calls[k].null /\ calls[k].status # 0
  /\ Returned("mod_detach") = {0}

\* C12 as stated: the shutdown entry point is called at most once, and
\* every call of it comes after an initialize call that returned zero
C12_ShutdownOnlyAfterInitializeOk ==
  /\ Cardinality(ShutdownCalls) <= 1
  /\ \A k \in ShutdownCalls :
       ~calls[k].null =>
         \E j \in CallsOf("coreclr_initialize") :
           j < k /\ ~calls[j].null /\ calls[j].status = 0

\* C12 as amended: the shutdown entry point is called at most once per
\* instance, as the last foreign call, made by mod_detach; the entry point
\* called was resolved from a loaded library, whether or not initialize
\* succeeded
C12_ShutdownAtMostOnce ==
  /\ Cardinality(ShutdownCalls) <= 1
  /\ \A k \in ShutdownCalls :
       /\ k = Len(calls)
       /\ pc \in {"detached", "crashed"}
       /\ ~calls[k].null =>
            (~LoadFailed /\ CallsOf("dlopen") # {} /\ DetachReturned)

C12_Witness ==
  /\ InitializeFailed
  /\ \E k \in ShutdownCalls : ~calls[k].null
  /\ pc = "detached"

\* C13: a section whose function identifier is absent is never bound: no
\* create-delegate call is made for it and its handle stays null
C13_UnconfiguredNeverBound ==
  \A s \in SectionSet \ Configured(inst) :
    BindCalls(s) = {} /\ inst.slot[s].function = NULL

C13_Witness ==
  /\ InitializeOk /\ InstantiateReturned
  /\ \E s \in SectionSet : inst.slot[s].function # NULL
  /\ inst.slot["authorize"].function_name = NullString
  /\ inst.slot["authorize"].function = NULL

\* C14: every mod_detach call makes exactly one call of the shutdown entry
\* point, with the instance's context handle and domain id, whatever
\* mod_instantiate did before
C14_DetachAttemptsShutdownOnce ==
  /\ Cardinality(ShutdownCalls) <= 1
  /\ DetachReturned => Cardinality(ShutdownCalls) = 1
  /\ \A k \in ShutdownCalls :
       calls[k].hostHandle = inst.hostHandle /\ calls[k].domainId = inst.domainId

C14_Witness ==
  /\ InitializeFailed
  /\ DetachReturned
  /\ \E k \in ShutdownCalls : calls[k].hostHandle = NULL

\* C15: once mod_instantiate has returned, no later call changes a slot's
\* handle or identifiers, and no further create-delegate call is made
C15_BindingFixedAfterInstantiate ==
  [][InstantiateReturned =>
       /\ inst'.slot = inst.slot
       /\ {k \in DOMAIN calls' : calls'[k].fn = "coreclr_create_delegate"}
            = CallsOf("coreclr_create_delegate")]_vars

C15_Witness ==
  /\ pc = "detached"
  /\ last.fn # ""
  /\ BindFailed # {}
  /\ \E s \in SectionSet : inst.slot[s].function # NULL

\* the dlsym calls made for a symbol
DlsymOf(x) == {k \in CallsOf("dlsym") : calls[k].section = x}

\* C16: when the library loads, each of the three symbols is looked up
\* once, whether or not another is missing, the instance holds what each
\* lookup returned, and mod_instantiate goes on to the initialize call
C16_SymbolsResolvedIndependently ==
  (pc # "configured" /\ CallsOf("dlopen") # {} /\ ~LoadFailed) =>
    /\ \A x \in HostingSymbols : Cardinality(DlsymOf(x)) = 1
    /\ \A k \in DlsymOf("coreclr_initialize") :
         inst.coreclr_initialize = calls[k].status
    /\ \A k \in DlsymOf("coreclr_create_delegate") :
         inst.coreclr_create_delegate = calls[k].status
    /\ \A k \in DlsymOf("coreclr_shutdown_2") :
         inst.coreclr_shutdown_2 = calls[k].status
    /\ CallsOf("coreclr_initialize") # {}
    /\ RLM_MODULE_FAIL \notin Returned("mod_instantiate")

C16_Witness ==
  /\ inst.coreclr_initialize # NULL
  /\ inst.coreclr_create_delegate = NULL
  /\ inst.coreclr_shutdown_2 # NULL
  /\ InitializeOk
  /\ InstantiateReturned

\* C18: once the library is loaded the instance keeps its handle: no call
\* clears or changes it
C18_LibraryStaysLoaded ==
  [][inst.dylib # NULL => inst'.dylib = inst.dylib]_vars

C18_Witness ==
  /\ pc = "detached"
  /\ InitializeFailed
  /\ inst.dylib = LibHandle

\* C19: every create-delegate call and the shutdown call made after a
\* successful initialize pass the context handle and domain id that the
\* initialize call produced, and the instance still holds that pair
C19_ContextPairPreserved ==
  \A j \in CallsOf("coreclr_initialize") :
    (~calls[j].null /\ calls[j].status = 0) =>
      /\ inst.hostHandle = calls[j].hostHandle
      /\ inst.domainId = calls[j].domainId
      /\ \A k \in CallsOf("coreclr_create_delegate") \cup ShutdownCalls :
           k > j => /\ calls[k].hostHandle = calls[j].hostHandle
                    /\ calls[k].domainId = calls[j].domainId

C19_Witness ==
  /\ InitializeOk
  /\ \E k \in CallsOf("coreclr_create_delegate") : ~calls[k].null
  /\ \E k \in ShutdownCalls : ~calls[k].null /\ calls[k].hostHandle = HostHandle

----------------------------------------------------------------------------
(* A server that instantiates an instance more than once *)

\* mod_instantiate is called at most this many times on the instance
MaxInstantiate == 2

\* how many times mod_instantiate has returned
InstantiateCount ==
  Cardinality({k \in DOMAIN returns : returns[k].fn = "mod_instantiate"})

\* the server calls mod_instantiate again on an instantiated instance;
\* mod_instantiate itself does not look at what an earlier call left
InstantiateAgain ==
  /\ pc = "instantiated"
  /\ InstantiateCount < MaxInstantiate
  /\ \E dl \in {NULL, LibHandle} :
     \E sym \in [HostingSymbols -> {NULL, SymbolAddr}] :
     \E init \in InitializeOutcomes(inst) :
     \E cd \in [Configured(inst) -> Statuses] :
       LET r == mod_instantiate(Exec(inst, calls, FALSE, 0), dl, sym, init, cd)
       IN /\ inst' = r.inst
          /\ calls' = r.calls
          /\ pc' = IF r.crashed THEN "crashed" ELSE "instantiated"
          /\ returns' = IF r.crashed THEN returns
                        ELSE Append(returns, [fn |-> "mod_instantiate", value |-> r.rc])
  /\ UNCHANGED last

\* the lifecycle calls alone, with repeated instantiation
NextRepeat == Instantiate \/ InstantiateAgain \/ Detach

SpecRepeat == Init /\ [][NextRepeat]_vars

\* C17: over any sequence of lifecycle calls on the instance, a repeated
\* mod_instantiate included, the initialize entry point is called at most
\* once
C17_InitializeAtMostOnce ==
  Cardinality({k \in CallsOf("coreclr_initialize") : ~calls[k].null}) <= 1

====
